---- MODULE Spec2Model ----
(***************************************************************************)
(* Contact Data Cleaner (src/app.py): the contact extraction pipeline.     *)
(*                                                                         *)
(* A Python str is modelled as a sequence of one-character strings, so     *)
(* that strip, lower, upper, find, split and slicing are computed the way  *)
(* the interpreter computes them.  <<"a","@","b">> is the str "a@b".       *)
(***************************************************************************)
EXTENDS Integers, Sequences, FiniteSets, TLC

VARIABLES
    pc,              \* position of the running function / handler
    email_arg,       \* is_valid_email: the argument, [kind, s]
    valid_ret,       \* is_valid_email: the returned value
    text,            \* extract_multiple_contacts: the argument
    contact_parts,   \* extract_multiple_contacts: the stripped comma parts
    part_idx,        \* extract_multiple_contacts: parts consumed by the loop
    contacts,        \* extract_multiple_contacts: the accumulator
    extract_ret,     \* extract_multiple_contacts: the returned list
    raised,          \* extract_multiple_contacts: the except handler ran
    dedup_in,        \* dedup loop: the list being iterated (contacts)
    dedup_idx,       \* dedup loop: contacts consumed
    seen_emails,     \* dedup loop: seen_emails
    unique_contacts, \* dedup loop: unique_contacts
    first_pass,      \* dedup harness: the output of the first pass
    env,             \* file level: what the outside world does
    rows,            \* file level: the fields still to be extracted
    all_contacts,    \* file level: all_contacts / contacts of process_*_file
    messages,        \* file level: user-visible st.warning / st.error calls
    uploaded_file,   \* script: what st.file_uploader returned, [present, suffix]
    button,          \* script: what st.button returned in this run
    defined          \* script: the helper names bound in the module namespace

vars == <<pc, email_arg, valid_ret, text, contact_parts, part_idx, contacts,
          extract_ret, raised, dedup_in, dedup_idx, seen_emails,
          unique_contacts, first_pass, env, rows, all_contacts, messages,
          uploaded_file, button, defined>>

validVars == <<email_arg, valid_ret>>
extractVars == <<text, contact_parts, part_idx, contacts, extract_ret, raised>>
dedupVars == <<dedup_in, dedup_idx, seen_emails, unique_contacts, first_pass>>
fileVars == <<env, rows, all_contacts, messages>>
scriptVars == <<uploaded_file, button, defined>>

(***************************************************************************)
(* Bounds of the model.                                                    *)
(***************************************************************************)
MaxValidToks == 4
MaxFieldToks == 5
MaxContacts == 3
MaxRows == 2

(***************************************************************************)
(* Characters and the str methods the program calls.                       *)
(***************************************************************************)
LowerAlpha ==
    <<"a","b","c","d","e","f","g","h","i","j","k","l","m",
      "n","o","p","q","r","s","t","u","v","w","x","y","z">>

UpperAlpha ==
    <<"A","B","C","D","E","F","G","H","I","J","K","L","M",
      "N","O","P","Q","R","S","T","U","V","W","X","Y","Z">>

Digits == {"0","1","2","3","4","5","6","7","8","9"}

\* the upper-case form of each lower-case letter, and the reverse
ToUpper ==
    [c \in {LowerAlpha[i] : i \in 1..26} |->
        UpperAlpha[CHOOSE i \in 1..26 : LowerAlpha[i] = c]]

ToLower ==
    [c \in {UpperAlpha[i] : i \in 1..26} |->
        LowerAlpha[CHOOSE i \in 1..26 : UpperAlpha[i] = c]]

IsLower(c) == c \in DOMAIN ToUpper

IsUpper(c) == c \in DOMAIN ToLower

UpperChar(c) == IF IsLower(c) THEN ToUpper[c] ELSE c

LowerChar(c) == IF IsUpper(c) THEN ToLower[c] ELSE c

\* str.upper()
Upper(s) == [i \in 1..Len(s) |-> UpperChar(s[i])]

\* str.lower()
Lower(s) == [i \in 1..Len(s) |-> LowerChar(s[i])]

\* str.capitalize(): first character upper-cased, the rest lower-cased
Capitalize(s) ==
    [i \in 1..Len(s) |-> IF i = 1 THEN UpperChar(s[i]) ELSE LowerChar(s[i])]

\* str.isspace() of one character
IsSpace(c) == c = " "

\* the regex class \w on one character
IsWordChar(c) == IsLower(c) \/ IsUpper(c) \/ c \in Digits \/ c = "_"

RECURSIVE LStrip(_)
LStrip(s) ==
    IF s # <<>> /\ IsSpace(Head(s)) THEN LStrip(Tail(s)) ELSE s

RECURSIVE RStrip(_)
RStrip(s) ==
    IF s # <<>> /\ IsSpace(s[Len(s)]) THEN RStrip(SubSeq(s, 1, Len(s) - 1)) ELSE s

\* str.strip()
Strip(s) == RStrip(LStrip(s))

\* c in s, for one character c
HasChar(s, c) == \E i \in 1..Len(s) : s[i] = c

\* sub in s
Contains(s, sub) ==
    \E i \in 0..(Len(s) - Len(sub)) : SubSeq(s, i + 1, i + Len(sub)) = sub

\* s.find(c): the 0-based index of the first c, or -1
Find(s, c) ==
    IF HasChar(s, c)
    THEN (CHOOSE i \in 1..Len(s) : s[i] = c /\ \A j \in 1..(i - 1) : s[j] # c) - 1
    ELSE -1

\* s[a:b] for a, b >= 0
Slice(s, a, b) == SubSeq(s, a + 1, IF b < Len(s) THEN b ELSE Len(s))

\* s.split(c): always at least one piece
RECURSIVE Split(_, _)
Split(s, c) ==
    IF ~HasChar(s, c) THEN <<s>>
    ELSE LET i == Find(s, c)
         IN  <<Slice(s, 0, i)>> \o Split(Slice(s, i + 1, Len(s)), c)

\* Python's None where a str is expected (no str is a one-element sequence
\* holding a four-character string)
None == <<"None">>

(***************************************************************************)
(* is_valid_email                                                          *)
(***************************************************************************)
Markers ==
    { <<"/","O","=">>,
      <<"/","O","U","=">>,
      <<"/","C","N","=">>,
      <<"M","I","D","B","O","R","O","M","G","M","N","T">>,
      <<"F","I","R","S","T"," ","A","D","M","I","N","I","S","T","R","A","T","I","V","E",
        " ","G","R","O","U","P">>,
      <<"R","E","C","I","P","I","E","N","T","S">> }

\* is_valid_email with the markers looked up in the email as typed
IsValidStrNoUpper(s) ==
    LET email == Strip(s)
        parts == Split(email, "@")
    IN  IF email = <<>> \/ (email # <<>> /\ email[1] = "/") THEN FALSE
        ELSE IF ~HasChar(email, "@") \/ ~HasChar(email, ".") THEN FALSE
        ELSE IF \E p \in Markers : Contains(email, p) THEN FALSE
        ELSE IF Len(parts) # 2 THEN FALSE
        ELSE IF parts[1] = <<>> \/ parts[2] = <<>> \/ ~HasChar(parts[2], ".") THEN FALSE
        ELSE TRUE

\* is_valid_email on a str
IsValidStr(s) ==
    LET email == Strip(s)
        upper == Upper(email)
        parts == Split(email, "@")
    IN  IF email = <<>> \/ (email # <<>> /\ email[1] = "/") THEN FALSE
        ELSE IF ~HasChar(email, "@") \/ ~HasChar(email, ".") THEN FALSE
        ELSE IF \E p \in Markers : Contains(upper, p) THEN FALSE
        ELSE IF Len(parts) # 2 THEN FALSE
        ELSE IF parts[1] = <<>> \/ parts[2] = <<>> \/ ~HasChar(parts[2], ".") THEN FALSE
        ELSE TRUE

\* is_valid_email on any value: v is [kind |-> "str" | "none" | "int" | "float", s |-> ...]
is_valid_email(v) ==
    IF v.kind # "str" THEN FALSE ELSE IsValidStr(v.s)

Str(s) == [kind |-> "str", s |-> s]

(***************************************************************************)
(* The contact builders.  A builder returns a contact or None: here the    *)
(* one-element sequence <<contact>> or the empty sequence.                 *)
(***************************************************************************)
\* extract_domain_from_email on a str (pd.isna is false of every str)
extract_domain_from_email(email) ==
    IF email = <<>> \/ ~HasChar(email, "@") THEN None
    ELSE Strip(Split(email, "@")[2])

Contact(full_name, first_name, last_name, email) ==
    [full_name |-> full_name, first_name |-> first_name, last_name |-> last_name,
     email |-> email, domain |-> extract_domain_from_email(email)]

\* the first_name / last_name pair create_contact_from_email_only derives
EmailOnlyNames(username) ==
    IF HasChar(username, ".")
    THEN LET parts == Split(username, ".")
         IN  IF Len(parts) >= 2
             THEN <<Capitalize(parts[1]), Capitalize(parts[2])>>
             ELSE <<Capitalize(username), <<>>>>
    ELSE <<Capitalize(username), <<>>>>

create_contact_from_email_only(email) ==
    LET username == Split(email, "@")[1]
        names == EmailOnlyNames(username)
    IN  <<Contact(Capitalize(username), names[1], names[2], email)>>

\* re.sub(r'[^\w\s]', ' ', name_text)
ReplaceNonWord(s) ==
    [i \in 1..Len(s) |-> IF IsWordChar(s[i]) \/ IsSpace(s[i]) THEN s[i] ELSE " "]

\* re.sub(r'\s+', ' ', name_text)
RECURSIVE CollapseSpaces(_)
CollapseSpaces(s) ==
    IF s = <<>> THEN <<>>
    ELSE IF IsSpace(s[1])
         THEN <<" ">> \o CollapseSpaces(LStrip(s))
         ELSE <<s[1]>> \o CollapseSpaces(Tail(s))

\* the cleaned name of create_contact_from_name_email
CleanName(name_text) == Strip(CollapseSpaces(ReplaceNonWord(name_text)))

\* str.split(): the maximal runs of non-space characters
WsSplit(s) == SelectSeq(Split(s, " "), LAMBDA w : w # <<>>)

\* ' '.join(words)
RECURSIVE JoinSpace(_)
JoinSpace(words) ==
    IF words = <<>> THEN <<>>
    ELSE IF Len(words) = 1 THEN words[1]
    ELSE words[1] \o <<" ">> \o JoinSpace(Tail(words))

create_contact_from_name_email(name_text, email) ==
    LET name == CleanName(name_text)
        name_parts == WsSplit(name)
    IN  IF name = <<>> \/ Len(name) < 2 THEN <<>>
        ELSE IF Len(name_parts) >= 2
             THEN <<Contact(name, name_parts[1], JoinSpace(Tail(name_parts)), email)>>
             ELSE <<Contact(name, name, <<>>, email)>>

(***************************************************************************)
(* extract_multiple_contacts                                               *)
(***************************************************************************)
\* the candidate name of a part holding '<' and '>'
BracketName(contact_part) ==
    Strip(Slice(contact_part, 0, Find(contact_part, "<")))

\* the candidate email of a part holding '<' and '>'
BracketEmail(contact_part) ==
    Strip(Slice(contact_part, Find(contact_part, "<") + 1, Find(contact_part, ">")))

\* the iteration with a failed "Name <email>" part retried as a bare email
PartContactsRetryBare(contact_part) ==
    LET bare == IF HasChar(contact_part, "@") /\ HasChar(contact_part, ".")
                   /\ is_valid_email(Str(Strip(contact_part)))
                THEN create_contact_from_email_only(Strip(contact_part))
                ELSE <<>>
    IN  IF contact_part = <<>> THEN <<>>
        ELSE IF HasChar(contact_part, "<") /\ HasChar(contact_part, ">")
        THEN LET name_text == BracketName(contact_part)
                 email == BracketEmail(contact_part)
                 built == IF name_text # <<>> /\ email # <<>> /\ is_valid_email(Str(email))
                          THEN create_contact_from_name_email(name_text, email)
                          ELSE <<>>
             IN  IF built # <<>> THEN built ELSE bare
        ELSE bare

\* the iteration with the bare email built before it is validated
PartContactsBareUnchecked(contact_part) ==
    IF contact_part = <<>> THEN <<>>
    ELSE IF HasChar(contact_part, "<") /\ HasChar(contact_part, ">")
    THEN LET name_text == BracketName(contact_part)
             email == BracketEmail(contact_part)
         IN  IF name_text # <<>> /\ email # <<>> /\ is_valid_email(Str(email))
             THEN create_contact_from_name_email(name_text, email)
             ELSE <<>>
    ELSE IF HasChar(contact_part, "@") /\ HasChar(contact_part, ".")
    THEN create_contact_from_email_only(Strip(contact_part))
    ELSE <<>>

\* one iteration of the loop over contact_parts: what it appends
PartContacts(contact_part) ==
    IF contact_part = <<>> THEN <<>>
    ELSE IF HasChar(contact_part, "<") /\ HasChar(contact_part, ">")
    THEN LET name_text == BracketName(contact_part)
             email == BracketEmail(contact_part)
         IN  IF name_text # <<>> /\ email # <<>> /\ is_valid_email(Str(email))
             THEN create_contact_from_name_email(name_text, email)
             ELSE <<>>
    ELSE IF HasChar(contact_part, "@") /\ HasChar(contact_part, ".")
    THEN LET email == Strip(contact_part)
         IN  IF is_valid_email(Str(email))
             THEN create_contact_from_email_only(email)
             ELSE <<>>
    ELSE <<>>

\* [part.strip() for part in text.split(',')]
SplitParts(t) ==
    LET raw == Split(t, ",") IN [i \in 1..Len(raw) |-> Strip(raw[i])]

\* the final filter of the normal return
ValidContacts(cs) == SelectSeq(cs, LAMBDA c : is_valid_email(Str(c.email)))

\* an except handler that returns a fresh empty list
ExceptReturnEmpty(cs) == <<>>

\* what the except handler returns
ExceptReturn(cs) == cs

Nan == <<"n","a","n">>

NoneText == <<"N","o","n","e">>

\* text = str(text).strip() and the early return on an empty text
ExtractEnter ==
    /\ pc = "extract_call"
    /\ text' = Strip(text)
    /\ IF text' = <<>> \/ text' = Nan \/ text' = NoneText
       THEN /\ extract_ret' = contacts
            /\ pc' = "extract_ret"
            /\ UNCHANGED contact_parts
       ELSE /\ contact_parts' = SplitParts(text')
            /\ pc' = "extract_loop"
            /\ UNCHANGED extract_ret
    /\ UNCHANGED <<part_idx, contacts, raised, validVars, scriptVars, dedupVars, fileVars>>

\* one iteration of: for contact_part in contact_parts
ExtractLoopStep ==
    /\ pc = "extract_loop"
    /\ part_idx < Len(contact_parts)
    /\ part_idx' = part_idx + 1
    /\ contacts' = contacts \o PartContacts(contact_parts[part_idx + 1])
    /\ UNCHANGED <<pc, text, contact_parts, extract_ret, raised,
                   validVars, scriptVars, dedupVars, fileVars>>

\* the loop is exhausted: filter and return
ExtractFilterReturn ==
    /\ pc = "extract_loop"
    /\ part_idx = Len(contact_parts)
    /\ extract_ret' = ValidContacts(contacts)
    /\ pc' = "extract_ret"
    /\ UNCHANGED <<text, contact_parts, part_idx, contacts, raised,
                   validVars, scriptVars, dedupVars, fileVars>>

\* a statement of the try block raises an Exception the code does not
\* expect (such as MemoryError from an allocation): except Exception
ExtractRaise ==
    /\ pc \in {"extract_call", "extract_loop"}
    /\ raised' = TRUE
    /\ extract_ret' = ExceptReturn(contacts)
    /\ pc' = "extract_ret"
    /\ UNCHANGED <<text, contact_parts, part_idx, contacts,
                   validVars, scriptVars, dedupVars, fileVars>>

(***************************************************************************)
(* The dedup loop of the conversion handler.                               *)
(***************************************************************************)
\* the key without lower()
DedupKeyNoLower(contact) ==
    IF "email" \in DOMAIN contact THEN Strip(contact.email) ELSE <<>>

\* contact.get('email', '').strip().lower()
DedupKey(contact) ==
    IF "email" \in DOMAIN contact THEN Lower(Strip(contact.email)) ELSE <<>>

\* normalized = dict(contact); normalized['email'] = email
Normalized(contact, email) == [contact EXCEPT !.email = email]

\* the iteration with the email as found, not the key, added to seen_emails
DedupIterRawSeen(seen, unique, contact) ==
    LET email == DedupKey(contact)
    IN  IF email # <<>> /\ email \notin seen
        THEN [seen |-> seen \cup {contact.email},
              unique |-> Append(unique, Normalized(contact, email))]
        ELSE [seen |-> seen, unique |-> unique]

\* one iteration of: for contact in contacts
DedupIter(seen, unique, contact) ==
    LET email == DedupKey(contact)
    IN  IF email # <<>> /\ email \notin seen
        THEN [seen |-> seen \cup {email},
              unique |-> Append(unique, Normalized(contact, email))]
        ELSE [seen |-> seen, unique |-> unique]

DedupStep ==
    /\ pc = "dedup_loop"
    /\ dedup_idx < Len(dedup_in)
    /\ LET r == DedupIter(seen_emails, unique_contacts, dedup_in[dedup_idx + 1])
       IN  /\ seen_emails' = r.seen
           /\ unique_contacts' = r.unique
    /\ dedup_idx' = dedup_idx + 1
    /\ UNCHANGED <<pc, dedup_in, first_pass, validVars, scriptVars, extractVars, fileVars>>

\* the loop is exhausted: unique_contacts is the output
DedupFinish ==
    /\ pc = "dedup_loop"
    /\ dedup_idx = Len(dedup_in)
    /\ env.pass # 1
    /\ pc' = "done"
    /\ UNCHANGED <<validVars, scriptVars, extractVars, dedupVars, fileVars>>

\* the dedup pass applied to its own output
DedupRerun ==
    /\ pc = "dedup_loop"
    /\ dedup_idx = Len(dedup_in)
    /\ env.pass = 1
    /\ first_pass' = unique_contacts
    /\ dedup_in' = unique_contacts
    /\ dedup_idx' = 0
    /\ seen_emails' = {}
    /\ unique_contacts' = <<>>
    /\ env' = [env EXCEPT !.pass = 2]
    /\ UNCHANGED <<pc, rows, all_contacts, messages, validVars, scriptVars, extractVars>>

(***************************************************************************)
(* process_excel_file, process_pst_file and convert_pst_via_readpst.       *)
(* rows holds the fields the row / message loops hand to                   *)
(* extract_multiple_contacts, in order: the contact-column cells of each   *)
(* spreadsheet row, or the sender and recipients of each message.          *)
(***************************************************************************)
Env(kind, read, pypff, readpst, pass) ==
    [kind |-> kind, read |-> read, pypff |-> pypff, readpst |-> readpst, pass |-> pass]

\* pd.read_csv / pd.read_excel, inside the try of process_excel_file
ProcessExcelRead ==
    /\ pc = "excel_call"
    /\ IF env.read = "raises"
       THEN /\ messages' = Append(messages, "error: Error processing Excel file")
            /\ rows' = <<>>
            /\ pc' = "file_ret"
       ELSE /\ pc' = "fields_loop"
            /\ UNCHANGED <<messages, rows>>
    /\ UNCHANGED <<env, all_contacts, validVars, scriptVars, extractVars, dedupVars>>

\* import pypff; pst_file.open(file_path)
ProcessPstOpen ==
    /\ pc = "pst_call"
    /\ CASE env.pypff = "ok" ->
              /\ pc' = "fields_loop"
              /\ UNCHANGED <<messages, rows>>
         [] env.pypff = "open_fails" ->
              /\ messages' = Append(messages, "error: Error processing PST file")
              /\ rows' = <<>>
              /\ pc' = "file_ret"
         [] env.pypff = "import_error" ->
              /\ pc' = "readpst_call"
              /\ UNCHANGED <<messages, rows>>
    /\ UNCHANGED <<env, all_contacts, validVars, scriptVars, extractVars, dedupVars>>

\* excel_data = convert_pst_via_readpst(file_path)
ConvertPstViaReadpst ==
    /\ pc = "readpst_call"
    /\ CASE env.readpst = "missing" ->
              /\ messages' = Append(messages, "warning: readpst not found")
              /\ rows' = <<>>
         [] env.readpst = "nonzero" ->
              /\ messages' = Append(messages, "error: readpst failed")
              /\ rows' = <<>>
         [] env.readpst = "raises" ->
              /\ rows' = <<>>
              /\ UNCHANGED messages
         [] env.readpst = "ok" ->
              UNCHANGED <<messages, rows>>
    /\ pc' = "fields_loop"
    /\ UNCHANGED <<env, all_contacts, validVars, scriptVars, extractVars, dedupVars>>

\* the guard in front of each call of extract_multiple_contacts
FieldGuard(kind, cell_value) ==
    IF kind = "excel"
    THEN cell_value # <<>> /\ cell_value # Nan /\ cell_value # NoneText
    ELSE cell_value # <<>>

\* the row / message loop takes its next field
FieldNext ==
    /\ pc = "fields_loop"
    /\ rows # <<>>
    /\ IF FieldGuard(env.kind, Head(rows))
       THEN /\ pc' = "extract_call"
            /\ text' = Head(rows)
            /\ contact_parts' = <<>>
            /\ part_idx' = 0
            /\ contacts' = <<>>
            /\ extract_ret' = <<>>
            /\ raised' = FALSE
            /\ UNCHANGED rows
       ELSE /\ rows' = Tail(rows)
            /\ UNCHANGED <<pc, extractVars>>
    /\ UNCHANGED <<env, all_contacts, messages, validVars, scriptVars, dedupVars>>

\* all_contacts.extend(extracted_contacts); the locals of the call are gone
FieldDone ==
    /\ pc = "extract_ret"
    /\ all_contacts' = all_contacts \o extract_ret
    /\ rows' = Tail(rows)
    /\ pc' = "fields_loop"
    /\ text' = <<>> /\ contact_parts' = <<>> /\ part_idx' = 0 /\ contacts' = <<>>
    /\ extract_ret' = <<>> /\ raised' = FALSE
    /\ UNCHANGED <<env, messages, validVars, scriptVars, dedupVars>>

\* return all_contacts
FileReturn ==
    /\ pc = "fields_loop"
    /\ rows = <<>>
    /\ pc' = "file_ret"
    /\ UNCHANGED <<validVars, scriptVars, extractVars, dedupVars, fileVars>>

\* the handler receives contacts and starts the dedup loop
HandlerDedupStart ==
    /\ pc = "file_ret"
    /\ dedup_in' = all_contacts
    /\ dedup_idx' = 0
    /\ seen_emails' = {}
    /\ unique_contacts' = <<>>
    /\ pc' = "dedup_loop"
    /\ UNCHANGED <<first_pass, validVars, scriptVars, extractVars, fileVars>>

(***************************************************************************)
(* Inputs: strings built from tokens, so that the long marker substrings   *)
(* and every arrangement of the separators occur within a small bound.     *)
(***************************************************************************)
RECURSIVE TokStrings(_, _)
TokStrings(toks, n) ==
    IF n = 0 THEN {<<>>}
    ELSE LET shorter == TokStrings(toks, n - 1)
         IN  shorter \cup {p \o t : p \in shorter, t \in toks}

ValidToks ==
    { <<"a">>, <<"@">>, <<".">>, <<"/">>, <<" ">>,
      <<"/","o","=">>,
      <<"/","O","u","=">>,
      <<"/","c","n","=">>,
      <<"M","i","d","b","o","r","o","M","g","m","n","t">>,
      <<"f","i","r","s","t"," ","a","d","m","i","n","i","s","t","r","a","t","i","v","e",
        " ","g","r","o","u","p">>,
      <<"r","e","c","i","p","i","e","n","t","s">> }

\* what a caller may pass: any str, or a value that is no str
ValidInputs ==
    {Str(s) : s \in TokStrings(ValidToks, MaxValidToks)}
        \cup {[kind |-> k, s |-> <<>>] : k \in {"none", "int", "float"}}

\* the def statements of the script, in the order it executes them
HelperDefs ==
    <<"process_excel_file", "process_pst_file", "extract_messages_from_folder",
      "convert_pst_via_readpst", "extract_multiple_contacts",
      "create_contact_from_email_only", "create_contact_from_name_email",
      "extract_domain_from_email", "is_valid_email", "safe_call",
      "get_recipients_list">>

HelperNames == {HelperDefs[i] : i \in 1..Len(HelperDefs)}

NoUpload == [present |-> FALSE, suffix |-> <<>>]

\* a function called on its own: every def of the script has been executed
HelpersBound ==
    /\ uploaded_file = NoUpload /\ button = FALSE /\ defined = HelperNames

NoExtract ==
    /\ text = <<>> /\ contact_parts = <<>> /\ part_idx = 0 /\ contacts = <<>>
    /\ extract_ret = <<>> /\ raised = FALSE

NoDedup ==
    /\ dedup_in = <<>> /\ dedup_idx = 0 /\ seen_emails = {}
    /\ unique_contacts = <<>> /\ first_pass = <<>>

NoFile ==
    /\ env = Env("none", "ok", "ok", "ok", 0) /\ rows = <<>> /\ all_contacts = <<>>
    /\ messages = <<>>

InitValid ==
    /\ pc = "valid_call"
    /\ email_arg \in ValidInputs
    /\ valid_ret = FALSE
    /\ NoExtract /\ NoDedup /\ NoFile
    /\ HelpersBound

\* one call of is_valid_email(email_arg)
CallIsValidEmail ==
    /\ pc = "valid_call"
    /\ valid_ret' = is_valid_email(email_arg)
    /\ pc' = "valid_done"
    /\ UNCHANGED <<email_arg, extractVars, dedupVars, fileVars, scriptVars>>

NextValid == CallIsValidEmail

SpecValid == InitValid /\ [][NextValid]_vars

(***************************************************************************)
(* extract_multiple_contacts on one field, its result handed on to the     *)
(* dedup loop.                                                             *)
(***************************************************************************)
FieldToks ==
    { <<"A","l"," ">>, <<"X","<">>, <<"<">>, <<">">>, <<",">>,
      <<"a",".","b",".","c","@","X",".","c">>,
      <<" ","d","@","y",".","e">> }

Fields == TokStrings(FieldToks, MaxFieldToks) \cup {Nan, NoneText}

InitExtract ==
    /\ pc = "extract_call"
    /\ text \in Fields
    /\ rows = <<text>>
    /\ contact_parts = <<>> /\ part_idx = 0 /\ contacts = <<>>
    /\ extract_ret = <<>> /\ raised = FALSE
    /\ env = Env("unit", "ok", "ok", "ok", 0)
    /\ all_contacts = <<>> /\ messages = <<>>
    /\ email_arg = [kind |-> "none", s |-> <<>>] /\ valid_ret = FALSE
    /\ NoDedup
    /\ HelpersBound

NextExtract ==
    \/ ExtractEnter
    \/ ExtractLoopStep
    \/ ExtractFilterReturn
    \/ ExtractRaise
    \/ FieldDone
    \/ FileReturn
    \/ HandlerDedupStart
    \/ DedupStep
    \/ DedupFinish

SpecExtract == InitExtract /\ [][NextExtract]_vars

(***************************************************************************)
(* The dedup loop on any contact sequence, then on its own output.         *)
(***************************************************************************)
RECURSIVE SeqsUpTo(_, _)
SeqsUpTo(S, n) ==
    IF n = 0 THEN {<<>>}
    ELSE LET shorter == SeqsUpTo(S, n - 1)
         IN  shorter \cup {Append(q, x) : q \in shorter, x \in S}

DedupEmails ==
    { <<>>, <<" ">>, <<"A","@","x",".","c"," ">>, <<"a","@","x",".","c">>, <<"b","@","y",".","d">> }

DedupPool ==
    {Contact(n, n, <<>>, e) : n \in {<<"P">>, <<"Q">>}, e \in DedupEmails}
        \cup {[full_name |-> <<"P">>]}

InitDedup ==
    /\ pc = "dedup_loop"
    /\ all_contacts \in SeqsUpTo(DedupPool, MaxContacts)
    /\ dedup_in = all_contacts
    /\ dedup_idx = 0 /\ seen_emails = {} /\ unique_contacts = <<>>
    /\ first_pass = <<>>
    /\ env = Env("dedup", "ok", "ok", "ok", 1)
    /\ rows = <<>> /\ messages = <<>>
    /\ email_arg = [kind |-> "none", s |-> <<>>] /\ valid_ret = FALSE
    /\ NoExtract
    /\ HelpersBound

NextDedup ==
    \/ DedupStep
    \/ DedupRerun
    \/ DedupFinish

SpecDedup == InitDedup /\ [][NextDedup]_vars

(***************************************************************************)
(* One uploaded file: process_excel_file or process_pst_file, then the     *)
(* dedup loop.  The helper functions are taken as bound when the handler   *)
(* calls them; the order in which the script defines them is not part of   *)
(* this specification.                                                     *)
(***************************************************************************)
FileFields ==
    { <<"A","l"," ","<","B","@","X",".","c",">",","," ","d","@","y",".","e">>,
      <<"b","@","x",".","c">>,
      <<"X"," ","<","d","@","y",".","e",">",","," ","d","@","y",".","e">>,
      Nan,
      <<>>,
      <<"A","l">> }

FileEnvs ==
    {Env("excel", r, "ok", "ok", 0) : r \in {"ok", "raises"}}
        \cup {Env("pst", "ok", p, q, 0) :
                p \in {"ok", "open_fails", "import_error"},
                q \in {"ok", "missing", "nonzero", "raises"}}

InitFile ==
    /\ env \in FileEnvs
    /\ rows \in SeqsUpTo(FileFields, MaxRows)
    /\ pc = IF env.kind = "excel" THEN "excel_call" ELSE "pst_call"
    /\ all_contacts = <<>> /\ messages = <<>>
    /\ email_arg = [kind |-> "none", s |-> <<>>] /\ valid_ret = FALSE
    /\ NoExtract /\ NoDedup
    /\ HelpersBound

NextFile ==
    \/ ProcessExcelRead
    \/ ProcessPstOpen
    \/ ConvertPstViaReadpst
    \/ FieldNext
    \/ ExtractEnter
    \/ ExtractLoopStep
    \/ ExtractFilterReturn
    \/ ExtractRaise
    \/ FieldDone
    \/ FileReturn
    \/ HandlerDedupStart
    \/ DedupStep
    \/ DedupFinish

SpecFile == InitFile /\ [][NextFile]_vars

(***************************************************************************)
(* One top-to-bottom execution of the script.  Streamlit executes the      *)
(* file statement by statement in a module namespace of the run: a def     *)
(* binds its name when it is executed, and a call looks its name up when   *)
(* the call is executed.                                                   *)
(***************************************************************************)
Xlsx == <<".","x","l","s","x">>

Xls == <<".","x","l","s">>

Csv == <<".","c","s","v">>

Pst == <<".","p","s","t">>

\* the suffixes st.file_uploader(type=['xlsx', 'xls', 'csv', 'pst']) lets through
UploadSuffixes == {Xlsx, Xls, Csv, Pst, <<".","P","S","T">>}

\* file_ext = Path(uploaded_file.name).suffix.lower()
FileExt(f) == Lower(f.suffix)

\* the name the handler calls for file_ext
CalledHelper(file_ext) ==
    IF file_ext \in {Xlsx, Xls, Csv} THEN "process_excel_file"
    ELSE IF file_ext = Pst THEN "process_pst_file"
    ELSE "none"

NameErrorMessage == "error: Error during conversion: name is not defined"

\* imports, page setup, title and st.file_uploader
ScriptTop ==
    /\ pc = "script_top"
    /\ pc' = IF uploaded_file.present THEN "button" ELSE "instructions"
    /\ UNCHANGED <<validVars, extractVars, dedupVars, fileVars, scriptVars>>

\* else: the instructions
ShowInstructions ==
    /\ pc = "instructions"
    /\ pc' = "footer"
    /\ UNCHANGED <<validVars, extractVars, dedupVars, fileVars, scriptVars>>

\* the file details and: if st.button("Start Conversion")
ConvertButton ==
    /\ pc = "button"
    /\ pc' = IF button THEN "handler_try" ELSE "footer"
    /\ UNCHANGED <<validVars, extractVars, dedupVars, fileVars, scriptVars>>

\* try: save the upload to a temporary file and detect file_ext
HandlerSave ==
    /\ pc = "handler_try"
    /\ pc' = "handler_call"
    /\ UNCHANGED <<validVars, extractVars, dedupVars, fileVars, scriptVars>>

\* contacts = process_excel_file(...) / process_pst_file(...): the name is
\* looked up now; a name that is not bound raises NameError, an Exception
HandlerCall ==
    /\ pc = "handler_call"
    /\ LET helper == CalledHelper(FileExt(uploaded_file))
       IN  IF helper = "none"
           THEN /\ messages' = Append(messages, "error: Unsupported file type")
                /\ pc' = "stopped"
           ELSE IF helper \in defined
           THEN /\ pc' = IF helper = "process_excel_file" THEN "excel_call" ELSE "pst_call"
                /\ UNCHANGED messages
           ELSE /\ pc' = "handler_except"
                /\ UNCHANGED messages
    /\ UNCHANGED <<env, rows, all_contacts, validVars, extractVars, dedupVars, scriptVars>>

\* except Exception as e: st.error("Error during conversion: ...")
HandlerExcept ==
    /\ pc = "handler_except"
    /\ messages' = Append(messages, NameErrorMessage)
    /\ pc' = "footer"
    /\ UNCHANGED <<env, rows, all_contacts, validVars, extractVars, dedupVars, scriptVars>>

\* the footer
Footer ==
    /\ pc = "footer"
    /\ pc' = "defs"
    /\ UNCHANGED <<validVars, extractVars, dedupVars, fileVars, scriptVars>>

\* the next def statement binds its name
DefineHelper ==
    /\ pc = "defs"
    /\ Cardinality(defined) < Len(HelperDefs)
    /\ defined' = defined \cup {HelperDefs[Cardinality(defined) + 1]}
    /\ UNCHANGED <<pc, uploaded_file, button, validVars, extractVars, dedupVars, fileVars>>

\* the end of the file
ScriptEnd ==
    /\ pc = "defs"
    /\ Cardinality(defined) = Len(HelperDefs)
    /\ pc' = "script_end"
    /\ UNCHANGED <<validVars, extractVars, dedupVars, fileVars, scriptVars>>

\* the uploads a run can start with: none, or a file of a permitted suffix
\* with its contents and the outcome of reading it
ScriptUploads ==
    {<<NoUpload, Env("none", "ok", "ok", "ok", 0), <<>>, FALSE>>}
        \cup {<<[present |-> TRUE, suffix |-> sfx], e, r, b>> :
                sfx \in UploadSuffixes, e \in FileEnvs,
                r \in SeqsUpTo(FileFields, MaxRows), b \in BOOLEAN}

InitScript ==
    /\ pc = "script_top"
    /\ \E u \in ScriptUploads :
         /\ (u[1].present =>
               u[2].kind = IF CalledHelper(FileExt(u[1])) = "process_excel_file"
                           THEN "excel" ELSE "pst")
         /\ uploaded_file = u[1]
         /\ env = u[2]
         /\ rows = u[3]
         /\ button = u[4]
    /\ defined = {}
    /\ all_contacts = <<>> /\ messages = <<>>
    /\ email_arg = [kind |-> "none", s |-> <<>>] /\ valid_ret = FALSE
    /\ NoExtract /\ NoDedup

NextScript ==
    \/ ScriptTop
    \/ ShowInstructions
    \/ ConvertButton
    \/ HandlerSave
    \/ HandlerCall
    \/ HandlerExcept
    \/ Footer
    \/ DefineHelper
    \/ ScriptEnd

SpecScript == InitScript /\ [][NextScript]_vars


(***************************************************************************)
(* The properties.  They are stated in terms of their own: the rules, the  *)
(* key and the delimiters as the specification words them.                 *)
(***************************************************************************)
\* the five rules of the validator, each read off the trimmed input
FiveRules(v) ==
    /\ v.kind = "str"
    /\ LET e == Strip(v.s)
           u == Upper(e)
       IN  /\ e # <<>>
           /\ e[1] # "/"
           /\ (\E i \in 1..Len(e) : e[i] = "@") /\ (\E i \in 1..Len(e) : e[i] = ".")
           /\ \A m \in Markers : ~Contains(u, m)
           /\ \E i \in 2..(Len(e) - 1) :
                /\ e[i] = "@"
                /\ \A j \in 1..Len(e) : e[j] = "@" => j = i
                /\ \E k \in (i + 1)..Len(e) : e[k] = "."

\* C3: is_valid_email returns a boolean on every input, strings or not, and
\* returns TRUE exactly when the five rules hold.
C3_ValidatorIsFiveRules ==
    pc = "valid_done" =>
        /\ valid_ret \in BOOLEAN
        /\ valid_ret = FiveRules(email_arg)

\* C3, its case: a string with surrounding blanks is accepted.
C3_Witness ==
    /\ pc = "valid_done"
    /\ valid_ret = TRUE
    /\ email_arg.s # Strip(email_arg.s)

\* the key of the deduplication: email.strip().lower(), empty without an email
ClaimKey(c) == IF "email" \in DOMAIN c THEN Lower(Strip(c.email)) ELSE <<>>

\* the positions of xs that hold the first occurrence of a non-empty key
FirstOccurrences(xs) ==
    {i \in 1..Len(xs) :
        /\ ClaimKey(xs[i]) # <<>>
        /\ \A j \in 1..(i - 1) : ClaimKey(xs[j]) # ClaimKey(xs[i])}

\* how many members of S are at most i
Rank(S, i) == Cardinality({j \in S : j <= i})

FirstSeenWins(xs, out) ==
    LET first == FirstOccurrences(xs)
    IN  /\ Len(out) = Cardinality(first)
        /\ \A i \in first :
             LET o == out[Rank(first, i)]
             IN  /\ o.email = ClaimKey(xs[i])
                 /\ o.full_name = xs[i].full_name
                 /\ o.first_name = xs[i].first_name
                 /\ o.last_name = xs[i].last_name

\* C1: the output of the dedup pass holds, in the order of first occurrence,
\* one contact per distinct non-empty key, with the names of the earliest
\* input contact of that key and the key as its email.
C1_FirstSeenWins ==
    (pc = "dedup_loop" /\ env.pass = 1 /\ dedup_idx = Len(dedup_in)) =>
        FirstSeenWins(all_contacts, unique_contacts)

\* C1, its case: a later contact with another name and the same key, spelled
\* differently, was dropped.
C1_Witness ==
    /\ pc = "dedup_loop" /\ env.pass = 1 /\ dedup_idx = Len(dedup_in)
    /\ Len(unique_contacts) >= 2
    /\ \E i, j \in 1..Len(all_contacts) :
         /\ i < j
         /\ "email" \in DOMAIN all_contacts[i] /\ "email" \in DOMAIN all_contacts[j]
         /\ all_contacts[i].email # all_contacts[j].email
         /\ all_contacts[i].full_name # all_contacts[j].full_name
         /\ ClaimKey(all_contacts[i]) = ClaimKey(all_contacts[j])
         /\ ClaimKey(all_contacts[i]) # <<>>

\* C2: the dedup pass run on its own output returns that output.
C2_DedupIdempotent ==
    (pc = "done" /\ env.pass = 2) => unique_contacts = first_pass

\* C2, its case: the first pass dropped a contact and rewrote an email.
C2_Witness ==
    /\ pc = "done" /\ env.pass = 2
    /\ Len(first_pass) >= 2
    /\ Len(first_pass) < Len(all_contacts)
    /\ \E i \in 1..Len(all_contacts) :
         /\ "email" \in DOMAIN all_contacts[i]
         /\ ClaimKey(all_contacts[i]) # <<>>
         /\ ClaimKey(all_contacts[i]) # all_contacts[i].email

\* a part in the "Name <email>" shape
IsBracketPart(p) ==
    (\E i \in 1..Len(p) : p[i] = "<") /\ (\E i \in 1..Len(p) : p[i] = ">")

\* a part that is an accepted "Name <email>" form or an accepted bare email;
\* the candidate name and email of a bracketed part are the ones the code
\* takes (how it locates them is C9's matter)
AcceptedPart(p) ==
    IF IsBracketPart(p)
    THEN /\ BracketName(p) # <<>>
         /\ BracketEmail(p) # <<>>
         /\ FiveRules(Str(BracketEmail(p)))
         /\ Len(CleanName(BracketName(p))) >= 2
    ELSE /\ (\E i \in 1..Len(p) : p[i] = "@") /\ (\E i \in 1..Len(p) : p[i] = ".")
         /\ FiveRules(Str(p))

\* the email the contact of an accepted part carries
PartEmail(p) == IF IsBracketPart(p) THEN BracketEmail(p) ELSE Strip(p)

\* the comma-separated parts of a field, trimmed
ClaimParts(field) ==
    LET raw == Split(Strip(field), ",") IN [i \in 1..Len(raw) |-> Strip(raw[i])]

\* C4: extract_multiple_contacts returns one contact per accepted part and
\* none for any other part, in the left-to-right order of the parts; a
\* bracketed part with a sanitized name under 2 characters is not accepted
\* and is not retried as a bare email.
C4_OnePerAcceptedPartInOrder ==
    (pc = "extract_ret" /\ ~raised) =>
        LET ps == ClaimParts(Head(rows))
            acc == {i \in 1..Len(ps) : AcceptedPart(ps[i])}
        IN  /\ Len(extract_ret) = Cardinality(acc)
            /\ \A i \in acc : extract_ret[Rank(acc, i)].email = PartEmail(ps[i])

\* C4, its case: a bracketed part with a valid email and a one-character
\* name gave nothing, and the bare email after it gave its contact.
C4_Witness ==
    /\ pc = "extract_ret" /\ ~raised
    /\ LET ps == ClaimParts(Head(rows))
       IN  /\ Len(ps) = 2
           /\ IsBracketPart(ps[1])
           /\ FiveRules(Str(BracketEmail(ps[1])))
           /\ Len(CleanName(BracketName(ps[1]))) = 1
           /\ AcceptedPart(ps[2])
           /\ Len(extract_ret) = 1
           /\ extract_ret[1].email = ps[2]

ApprovedEmail(e) == e # <<>> /\ FiveRules(Str(e))

AllApproved(cs) == \A i \in 1..Len(cs) : ApprovedEmail(cs[i].email)

\* C5: every contact extract_multiple_contacts returns, from its normal
\* return or from its except handler, and so every contact that enters the
\* dedup pass and every contact of the output, has a non-empty email that
\* satisfies the validator's rules.
C5_ReturnedEmailsApproved ==
    /\ pc = "extract_ret" => AllApproved(extract_ret)
    /\ pc = "dedup_loop" => AllApproved(dedup_in)
    /\ pc = "done" => AllApproved(unique_contacts)

\* C5, its case: the except handler returned contacts, with parts left over.
C5_Witness ==
    /\ pc = "extract_ret"
    /\ raised
    /\ part_idx < Len(contact_parts)
    /\ extract_ret # <<>>

\* the substring of e after its first '@'
AfterAt(e) ==
    LET at == CHOOSE i \in 1..Len(e) : e[i] = "@" /\ \A j \in 1..(i - 1) : e[j] # "@"
    IN  SubSeq(e, at + 1, Len(e))

\* C6: in the final output, domain is the substring after '@' of the email
\* stored beside it.
C6_DomainMatchesStoredEmail ==
    pc = "done" =>
        \A i \in 1..Len(unique_contacts) :
            unique_contacts[i].domain = AfterAt(unique_contacts[i].email)

\* the first '>' of p after position lt (1-based), or 0
FirstGtAfter(p, lt) ==
    IF \E i \in (lt + 1)..Len(p) : p[i] = ">"
    THEN CHOOSE i \in (lt + 1)..Len(p) :
            p[i] = ">" /\ \A j \in (lt + 1)..(i - 1) : p[j] # ">"
    ELSE 0

FirstLt(p) == CHOOSE i \in 1..Len(p) : p[i] = "<" /\ \A j \in 1..(i - 1) : p[j] # "<"

\* C9: for the part the loop is about to take, when it holds a '<' with a
\* '>' after it, the candidate email is the text between the first '<' and
\* the first '>' after it, and the candidate name the text before that '<'.
C9_EmailBetweenFirstLtAndNextGt ==
    (pc = "extract_loop" /\ part_idx < Len(contact_parts)) =>
        LET p == contact_parts[part_idx + 1]
        IN  (IsBracketPart(p) /\ FirstGtAfter(p, FirstLt(p)) # 0) =>
                /\ BracketEmail(p) =
                      Strip(SubSeq(p, FirstLt(p) + 1, FirstGtAfter(p, FirstLt(p)) - 1))
                /\ BracketName(p) = Strip(SubSeq(p, 1, FirstLt(p) - 1))

\* the local-part of a bare email
LocalPart(e) == SubSeq(e, 1, (CHOOSE i \in 1..Len(e) : e[i] = "@"
                                 /\ \A j \in 1..(i - 1) : e[j] # "@") - 1)

FirstDot(u) == CHOOSE i \in 1..Len(u) : u[i] = "." /\ \A j \in 1..(i - 1) : u[j] # "."

\* C10: a field that is one validator-approved bare email yields a contact
\* whose first_name and last_name are the capitalized text before the first
\* '.' of the local-part and the capitalized text after it (all of it); with
\* no '.', first_name is the capitalized local-part and last_name is empty.
C10_BareEmailSplitOnFirstDot ==
    (pc = "extract_ret" /\ ~raised) =>
        LET ps == ClaimParts(Head(rows))
        IN  (Len(ps) = 1 /\ ~IsBracketPart(ps[1]) /\ ApprovedEmail(ps[1])) =>
                LET u == LocalPart(ps[1])
                IN  /\ Len(extract_ret) = 1
                    /\ IF \E i \in 1..Len(u) : u[i] = "."
                       THEN /\ extract_ret[1].first_name =
                                  Capitalize(SubSeq(u, 1, FirstDot(u) - 1))
                            /\ extract_ret[1].last_name =
                                  Capitalize(SubSeq(u, FirstDot(u) + 1, Len(u)))
                       ELSE /\ extract_ret[1].first_name = Capitalize(u)
                            /\ extract_ret[1].last_name = <<>>

\* C7, as claimed: a field whose extraction raised yields an empty sequence.
C7_RaisedFieldYieldsEmpty ==
    (pc = "extract_ret" /\ raised) => extract_ret = <<>>

\* C7, amended: a field whose extraction raised yields the contacts built
\* from the parts taken before the error, and the row / message loop goes on
\* to the remaining fields.
C7_RaisedFieldYieldsBuiltContacts ==
    [][(pc = "extract_ret" /\ raised) =>
          /\ pc' = "fields_loop"
          /\ rows' = Tail(rows)
          /\ all_contacts' = all_contacts \o contacts]_vars

\* C7, its case: the error came after a contact was built, with a field left.
C7_Witness ==
    /\ pc = "extract_ret" /\ raised
    /\ contacts # <<>>
    /\ part_idx < Len(contact_parts)
    /\ Len(rows) >= 2

\* the message source of a .pst file is unavailable
SourceUnavailable(e) ==
    /\ e.kind = "pst"
    /\ \/ e.pypff = "open_fails"
       \/ e.pypff = "import_error" /\ e.readpst \in {"missing", "nonzero", "raises"}

\* C8: with the message source unavailable, process_pst_file returns an
\* empty contact list and exactly one failure message was surfaced.
C8_UnavailableSourceOneMessage ==
    (pc = "file_ret" /\ SourceUnavailable(env)) =>
        /\ all_contacts = <<>>
        /\ Len(messages) = 1

\* C11: when the handler executes its call of process_excel_file or
\* process_pst_file, that name is already bound, and no run ends in the
\* generic "Error during conversion" handler because of an undefined name.
C11_HelperDefinedBeforeCall ==
    /\ pc = "handler_call" =>
          CalledHelper(FileExt(uploaded_file)) \in defined \cup {"none"}
    /\ pc # "handler_except"
    /\ \A i \in 1..Len(messages) : messages[i] # NameErrorMessage

====
